---- MODULE Spec2Model ----
(***************************************************************************)
(* Stock-trade outlier analysis: the load / annotate / graph-write         *)
(* pipeline of create_graph.py (data_loader.py, analysis.py) against a     *)
(* Neo4j-like store, and the in-memory graph of visualization.Chart.       *)
(*                                                                         *)
(* Numbers are fixed point in units of 1e-4 (one pip): the text "1.1000"   *)
(* is 11000.  Returns are fixed point in units of 1/RetScale.              *)
(***************************************************************************)
EXTENDS Integers, Sequences, FiniteSets, Bags, TLC

VARIABLES
    csv,        \* the rows of the input file, as text
    pc,         \* position of the create_graph.py script
    data,       \* the DataFrame `data`
    i, j,       \* loop indices of the phase in progress
    nodes,      \* store: sequence of Trade nodes (position = node identity)
    edges,      \* store: bag of relationships [type, src, dst, similarity]
    writes,     \* the execute_write calls issued by the current run, in order
    run,        \* number of the current run of the script against the store
    G           \* Chart.G, the networkx DiGraph: [nodes, edges] or "none"

vars == <<csv, pc, data, i, j, nodes, edges, writes, run, G>>

----------------------------------------------------------------------------
(* Bounds of the model *)

MaxRows == 3        \* rows of the input file, general tables
MaxRuns == 2        \* runs of the script against the same store
MaxSimRows == 4     \* rows of the input file, open-price tables
MaxStatRows == 12   \* rows of the input file, step-shaped close series

(* Program constants *)

RetScale == 10000           \* resolution of Return: 1e-4
OutlierThreshold == 3       \* detect_outliers(threshold=3)
SigmaBand == 2              \* mean +/- 2*std
VolumeLowPct == 5           \* quantile(0.05)
VolumeHighPct == 95         \* quantile(0.95)
SimilarThresholdPips == 5   \* SIMILAR_THRESHOLD = 0.0005
EpsilonDen == 100           \* 1e-6 = 1/100 pip
ChartRows == 100            \* data[:100]

----------------------------------------------------------------------------
(* Cells of a DataFrame column: a float, NaN, or a string (object dtype) *)

Num(v) == [k |-> "num", v |-> v, s |-> ""]
NaN    == [k |-> "nan", v |-> 0, s |-> ""]
Str(s) == [k |-> "str", v |-> 0, s |-> s]

IsNum(c) == c.k = "num"

(* The decimal texts the inputs are drawn from, with their values in pips *)
TextValue ==
    ("0" :> 0) @@ ("0.0" :> 0) @@
    ("0.001" :> 10) @@ ("0.0010" :> 10) @@ ("0.002" :> 20) @@ ("0.003" :> 30) @@
    ("1.09" :> 10900) @@ ("1.1" :> 11000) @@ ("1.10" :> 11000) @@
    ("1.1000" :> 11000) @@ ("1.1004" :> 11004) @@ ("1.1005" :> 11005) @@
    ("1.1010" :> 11010) @@ ("1.11" :> 11100) @@ ("1.50" :> 15000)

IsNumericText(s) == s \in DOMAIN TextValue

(* pd.to_numeric(x, errors='coerce') on one cell *)
to_numeric(c) ==
    IF c.k = "str"
    THEN IF IsNumericText(c.s) THEN Num(TextValue[c.s]) ELSE NaN
    ELSE c

(* Fractional-second texts (%f) and their value in milliseconds *)
FracMs == ("0" :> 0) @@ ("000" :> 0) @@ ("5" :> 500) @@ ("500" :> 500)

(* pd.to_datetime(format='%d.%m.%Y %H:%M:%S.%f'): a timestamp text is
   [dd, mm, frac]; the day comes first in the text and last in the order *)
TimeParses(t) == t.frac \in DOMAIN FracMs
to_datetime(t) == (t.mm * 100 + t.dd) * 1000 + FracMs[t.frac]

(* Timestamp.isoformat(): month first, then day, then the milliseconds *)
isoformat(ts) == <<(ts \div 1000) \div 100, (ts \div 1000) % 100, ts % 1000>>

----------------------------------------------------------------------------
(* Sequence helpers *)

Range(s) == {s[k] : k \in 1..Len(s)}

RECURSIVE SumSeq(_)
SumSeq(s) == IF s = <<>> THEN 0 ELSE Head(s) + SumSeq(Tail(s))

\* the subsequence of s at the positions in K, from position k on, in order
RECURSIVE FilterIdx(_, _, _)
FilterIdx(s, K, k) ==
    IF k > Len(s) THEN <<>>
    ELSE (IF k \in K THEN <<s[k]>> ELSE <<>>) \o FilterIdx(s, K, k + 1)

NumericCols == {"Open", "High", "Low", "Close", "Volume"}

----------------------------------------------------------------------------
(* data_loader.load_and_clean_data *)

(* pd.read_csv: a column whose every cell is a number is a float column;
   any other column keeps the text of every cell (object dtype) *)
ColumnIsNumeric(rows, col) ==
    \A k \in 1..Len(rows) : IsNumericText(rows[k][col])

read_csv(rows) ==
    [k \in 1..Len(rows) |->
        [c \in DOMAIN rows[k] |->
            IF c \in NumericCols
            THEN IF ColumnIsNumeric(rows, c)
                 THEN Num(TextValue[rows[k][c]])
                 ELSE Str(rows[k][c])
            ELSE rows[k][c]]]

ConvertTime(df) ==
    [k \in 1..Len(df) |-> [df[k] EXCEPT !.Gmt_time = to_datetime(@)]]

(* DataFrame.drop_duplicates(): keep the first of the rows equal in every
   column *)
drop_duplicates(df) ==
    LET First == {k \in 1..Len(df) : \A m \in 1..(k - 1) : df[m] # df[k]}
    IN  FilterIdx(df, First, 1)

CoerceNumeric(df) ==
    [k \in 1..Len(df) |->
        [c \in DOMAIN df[k] |->
            IF c \in NumericCols THEN to_numeric(df[k][c]) ELSE df[k][c]]]

(* data[data['Volume'] != 0]: NaN != 0 is true *)
DropZeroVolume(df) ==
    LET NonZero == {k \in 1..Len(df) : ~(IsNum(df[k].Volume) /\ df[k].Volume.v = 0)}
    IN  FilterIdx(df, NonZero, 1)

load_and_clean_data(rows) ==
    DropZeroVolume(CoerceNumeric(drop_duplicates(ConvertTime(read_csv(rows)))))

CsvParses(rows) == \A k \in 1..Len(rows) : TimeParses(rows[k].Gmt_time)

----------------------------------------------------------------------------
(* data_loader.detect_outliers *)

Inf(sgn) == [k |-> "inf", v |-> sgn, s |-> ""]

(* Series.pct_change(): missing closes are padded with the last close seen
   (fill_method='pad'), then each row is divided by the row before it, in
   the order the rows stand in the frame *)
RECURSIVE Pad(_, _)
Pad(df, k) ==
    IF k = 0 THEN NaN
    ELSE IF IsNum(df[k].Close) THEN df[k].Close ELSE Pad(df, k - 1)

FloatDiv(num, den) ==
    IF den = 0
    THEN IF num = 0 THEN NaN ELSE Inf(IF num > 0 THEN 1 ELSE -1)
    ELSE Num((num * RetScale) \div den)

pct_change(df, k) ==
    LET cur  == Pad(df, k)
        prev == Pad(df, k - 1)
    IN  IF IsNum(cur) /\ IsNum(prev)
        THEN FloatDiv(cur.v - prev.v, prev.v)
        ELSE NaN

WithReturn(df) ==
    [k \in 1..Len(df) |-> df[k] @@ [Return |-> pct_change(df, k)]]

(* data.dropna(subset=['Return']) *)
DropNaReturn(df) ==
    LET Present == {k \in 1..Len(df) : df[k].Return.k # "nan"}
    IN  FilterIdx(df, Present, 1)

(* Statistics of the Return column.  With n returns r_k and S their sum,
   Dev(k) = n*r_k - S = n*(r_k - mean), and SSD is the sum of the Dev(k)^2,
   so that std^2 = SSD / (n^2 * (n-1))  (Series.std(), ddof = 1). *)
ReturnsFinite(df) == \A k \in 1..Len(df) : IsNum(df[k].Return)
ReturnSum(df) == SumSeq([k \in 1..Len(df) |-> df[k].Return.v])
Dev(df, k) == Len(df) * df[k].Return.v - ReturnSum(df)
SSD(df) == SumSeq([k \in 1..Len(df) |-> Dev(df, k) * Dev(df, k)])

(* std() is NaN for fewer than two values and when a value is not finite *)
StdDefined(df) == Len(df) >= 2 /\ ReturnsFinite(df)

(* z = (Return - mean) / std, kept as the signed Dev d with z^2 = d^2*n1/ssd.
   A zero std gives 0/0: NaN, not an exception, in float arithmetic. *)
NaNz == [k |-> "nan", d |-> 0, n1 |-> 0, ssd |-> 0]

z_score(df, k) ==
    IF ~StdDefined(df) THEN NaNz
    ELSE IF SSD(df) = 0
         THEN IF Dev(df, k) = 0 THEN NaNz
              ELSE [k |-> "inf", d |-> Dev(df, k), n1 |-> 0, ssd |-> 0]
         ELSE [k |-> "num", d |-> Dev(df, k), n1 |-> Len(df) - 1, ssd |-> SSD(df)]

(* z.abs() > threshold; a comparison with NaN is false *)
AbsGreater(z, t) ==
    \/ z.k = "inf"
    \/ z.k = "num" /\ z.d * z.d * z.n1 > t * t * z.ssd

(* faulty variant: the comparison turned around *)
IsOutlierFlipped(z) ==
    z.k = "num" /\ z.d * z.d * z.n1 < OutlierThreshold * OutlierThreshold * z.ssd

(* faulty variant: not (|z| <= threshold), which is true of NaN *)
IsOutlierNotLeq(z) ==
    ~(z.k = "num" /\ z.d * z.d * z.n1 <= OutlierThreshold * OutlierThreshold * z.ssd)

IsOutlier(z) == AbsGreater(z, OutlierThreshold)

detect_outliers(df0) ==
    LET df == DropNaReturn(WithReturn(df0))
    IN  [k \in 1..Len(df) |->
            df[k] @@ [z_score    |-> z_score(df, k),
                      is_outlier |-> IsOutlier(z_score(df, k))]]

----------------------------------------------------------------------------
(* analysis.compute_guideline_deviation *)

(* the numeric values of a column, ascending (quantile skips NaN) *)
RECURSIVE Insert(_, _)
Insert(s, x) ==
    IF s = <<>> THEN <<x>>
    ELSE IF x <= Head(s) THEN <<x>> \o s
    ELSE <<Head(s)>> \o Insert(Tail(s), x)

RECURSIVE SortedFrom(_, _)
SortedFrom(vals, k) ==
    IF k > Len(vals) THEN <<>> ELSE Insert(SortedFrom(vals, k + 1), vals[k])

VolumeValues(df) ==
    LET Present == {k \in 1..Len(df) : IsNum(df[k].Volume)}
        kept == FilterIdx(df, Present, 1)
    IN  [k \in 1..Len(kept) |-> kept[k].Volume.v]

(* Series.quantile(pct/100), linear interpolation, times 100:
   the position (n-1)*pct/100 falls between two order statistics *)
Quantile100(vals, pct) ==
    LET sorted == SortedFrom(vals, 1)
        pos100 == (Len(vals) - 1) * pct
        lo     == pos100 \div 100 + 1
        rem    == pos100 % 100
    IN  IF rem = 0 THEN 100 * sorted[lo]
        ELSE 100 * sorted[lo] + rem * (sorted[lo + 1] - sorted[lo])

VolumeLow(df)  == Quantile100(VolumeValues(df), VolumeLowPct)
VolumeHigh(df) == Quantile100(VolumeValues(df), VolumeHighPct)

VolumeOutside(df, k) ==
    /\ IsNum(df[k].Volume)
    /\ VolumeValues(df) # <<>>
    /\ \/ 100 * df[k].Volume.v < VolumeLow(df)
       \/ 100 * df[k].Volume.v > VolumeHigh(df)

(* Return < mean - 2*std  or  Return > mean + 2*std; false when std is NaN *)
ReturnOutside(df, k) ==
    /\ StdDefined(df)
    /\ Dev(df, k) * Dev(df, k) * (Len(df) - 1) > SigmaBand * SigmaBand * SSD(df)

(* faulty variant: a volume on the boundary of its band deviates *)
DeviatesInclusive(df, k) ==
    \/ IsNum(df[k].Volume) /\ VolumeValues(df) # <<>>
         /\ (100 * df[k].Volume.v <= VolumeLow(df) \/ 100 * df[k].Volume.v >= VolumeHigh(df))
    \/ ReturnOutside(df, k)

(* faulty variant: both bands must be left *)
DeviatesAnd(df, k) == VolumeOutside(df, k) /\ ReturnOutside(df, k)

Deviates(df, k) == VolumeOutside(df, k) \/ ReturnOutside(df, k)

compute_guideline_deviation(df) ==
    [k \in 1..Len(df) |-> df[k] @@ [deviates_guideline |-> Deviates(df, k)]]

----------------------------------------------------------------------------
(* create_graph.py: the store and the three write phases *)

(* the parameter dict of create_trade_node for row k of data *)
trade(df, k) ==
    [trade_id           |-> isoformat(df[k].Gmt_time),
     timestamp          |-> isoformat(df[k].Gmt_time),
     open               |-> df[k].Open,
     high               |-> df[k].High,
     low                |-> df[k].Low,
     close              |-> df[k].Close,
     volume             |-> df[k].Volume,
     is_outlier         |-> df[k].is_outlier,
     deviates_guideline |-> df[k].deviates_guideline]

(* data.sort_values(by="Gmt time"), then isoformat of each row's time *)
SortedTradeIds(df) ==
    LET sorted == SortedFrom([k \in 1..Len(df) |-> df[k].Gmt_time], 1)
    IN  [k \in 1..Len(sorted) |-> isoformat(sorted[k])]

trade_ids == SortedTradeIds(data)

(* trade_list: (trade_id, float(Open)) of every row, in the frame's order *)
trade_list ==
    [k \in 1..Len(data) |-> [id |-> isoformat(data[k].Gmt_time), open |-> data[k].Open]]

(* MATCH (a:Trade {trade_id: x}), (b:Trade {trade_id: y}): every pair of
   stored nodes carrying the two ids; CREATE adds one relationship per pair *)
Match(x, y) ==
    {<<a, b>> \in (1..Len(nodes)) \X (1..Len(nodes)) :
        nodes[a].trade_id = x /\ nodes[b].trade_id = y}

RECURSIVE BagOfSet(_)
BagOfSet(S) ==
    IF S = {} THEN EmptyBag
    ELSE LET x == CHOOSE y \in S : TRUE IN SetToBag({x}) (+) BagOfSet(S \ {x})

Created(type, x, y, sim) ==
    BagOfSet({[type |-> type, src |-> m[1], dst |-> m[2], similarity |-> sim] :
                m \in Match(x, y)})

NoSim == [num |-> 0, den |-> 1]

Write(op, a, b, ia, ib, sim) ==
    [op |-> op, a |-> a, b |-> b, ia |-> ia, ib |-> ib, similarity |-> sim]

(* abs(open_i - open_j); NaN when an open is NaN *)
PriceDiff(a, b) ==
    IF IsNum(a) /\ IsNum(b)
    THEN Num(IF a.v >= b.v THEN a.v - b.v ELSE b.v - a.v)
    ELSE NaN

(* faulty variant: a difference equal to the threshold is similar *)
IsSimilarInclusive(diff) == IsNum(diff) /\ diff.v <= SimilarThresholdPips

(* price_diff < SIMILAR_THRESHOLD; false for NaN *)
IsSimilar(diff) == IsNum(diff) /\ diff.v < SimilarThresholdPips

(* 1.0 / (price_diff + 1e-6), as a fraction whose denominator is in 1e-6 *)
Similarity(diff) == [num |-> 1, den |-> EpsilonDen * diff.v + 1]

(* faulty variant: the node loop stops one row early *)
NodePhaseDoneEarly == i > Len(data) - 1

NodePhaseDone == i > Len(data)

Unbuilt == [built |-> FALSE, nodes |-> <<>>, edges |-> {}]

(* data = load_and_clean_data(csv_file); an unparsable time raises *)
Load ==
    /\ pc = "load"
    /\ IF CsvParses(csv)
       THEN data' = load_and_clean_data(csv) /\ pc' = "detect"
       ELSE data' = <<>> /\ pc' = "aborted"
    /\ UNCHANGED <<csv, i, j, nodes, edges, writes, run, G>>

(* data = detect_outliers(data) *)
DetectOutliers ==
    /\ pc = "detect"
    /\ data' = detect_outliers(data)
    /\ pc' = "guideline"
    /\ UNCHANGED <<csv, i, j, nodes, edges, writes, run, G>>

(* data = compute_guideline_deviation(data) *)
GuidelineDeviation ==
    /\ pc = "guideline"
    /\ data' = compute_guideline_deviation(data)
    /\ pc' = "nodes"
    /\ i' = 1
    /\ UNCHANGED <<csv, j, nodes, edges, writes, run, G>>

(* session.execute_write(create_trade_node, trade): CREATE always adds *)
CreateTradeNode ==
    /\ pc = "nodes"
    /\ ~NodePhaseDone
    /\ nodes' = Append(nodes, trade(data, i))
    /\ writes' = Append(writes,
                    Write("NODE", isoformat(data[i].Gmt_time),
                          isoformat(data[i].Gmt_time), i, i, NoSim))
    /\ i' = i + 1
    /\ UNCHANGED <<csv, pc, data, j, edges, run, G>>

(* the node loop is over: trade_ids is built and the NEXT loop starts *)
StartNextPhase ==
    /\ pc = "nodes"
    /\ NodePhaseDone
    /\ pc' = "next"
    /\ i' = 1
    /\ UNCHANGED <<csv, data, j, nodes, edges, writes, run, G>>

(* session.execute_write(create_consecutive_relationship, ids[i], ids[i+1]) *)
CreateNext ==
    /\ pc = "next"
    /\ i <= Len(trade_ids) - 1
    /\ edges' = edges (+) Created("NEXT", trade_ids[i], trade_ids[i + 1], NoSim)
    /\ writes' = Append(writes,
                    Write("NEXT", trade_ids[i], trade_ids[i + 1], i, i + 1, NoSim))
    /\ i' = i + 1
    /\ UNCHANGED <<csv, pc, data, j, nodes, run, G>>

(* the NEXT loop is over: trade_list is built and the SIMILAR loops start *)
StartSimilarPhase ==
    /\ pc = "next"
    /\ i > Len(trade_ids) - 1
    /\ pc' = "similar"
    /\ i' = 1
    /\ j' = 2
    /\ UNCHANGED <<csv, data, nodes, edges, writes, run, G>>

(* one iteration of the inner loop over j, for the current i *)
SimilarStep ==
    /\ pc = "similar"
    /\ i <= Len(trade_list)
    /\ j <= Len(trade_list)
    /\ LET price_diff == PriceDiff(trade_list[i].open, trade_list[j].open)
       IN  IF IsSimilar(price_diff)
           THEN /\ edges' = edges (+) Created("SIMILAR", trade_list[i].id,
                                              trade_list[j].id, Similarity(price_diff))
                /\ writes' = Append(writes,
                                Write("SIMILAR", trade_list[i].id, trade_list[j].id,
                                      i, j, Similarity(price_diff)))
           ELSE UNCHANGED <<edges, writes>>
    /\ j' = j + 1
    /\ UNCHANGED <<csv, pc, data, i, nodes, run, G>>

(* the inner loop is over: the outer loop moves to the next i *)
SimilarNextRow ==
    /\ pc = "similar"
    /\ i <= Len(trade_list)
    /\ j > Len(trade_list)
    /\ i' = i + 1
    /\ j' = i + 2
    /\ UNCHANGED <<csv, pc, data, nodes, edges, writes, run, G>>

(* driver.close() *)
Finish ==
    /\ pc = "similar"
    /\ i > Len(trade_list)
    /\ pc' = "done"
    /\ UNCHANGED <<csv, data, i, j, nodes, edges, writes, run, G>>

(* the script is run again on the same file against the same store *)
Rerun ==
    /\ pc = "done"
    /\ run < MaxRuns
    /\ run' = run + 1
    /\ pc' = "load"
    /\ data' = <<>>
    /\ writes' = <<>>
    /\ i' = 1
    /\ j' = 1
    /\ G' = Unbuilt
    /\ UNCHANGED <<csv, nodes, edges>>

----------------------------------------------------------------------------
(* visualization.Chart.__init__ *)

FirstRows(df, n) == SubSeq(df, 1, IF Len(df) < n THEN Len(df) ELSE n)

(* G.add_node(trade_id, ...): G's nodes in insertion order, one per id *)
RECURSIVE AddNodes(_, _, _)
AddNodes(acc, df, k) ==
    IF k > Len(df) THEN acc
    ELSE LET id == isoformat(df[k].Gmt_time)
         IN  AddNodes(IF id \in Range(acc) THEN acc ELSE Append(acc, id), df, k + 1)

(* G.add_edge(ids[k], ids[k+1]) for the ids sorted by time; add_edge also
   adds a missing endpoint, and a DiGraph keeps one edge per ordered pair *)
ChartEdges(df) ==
    LET ids == SortedTradeIds(df)
    IN  {<<ids[k], ids[k + 1]>> : k \in 1..(Len(ids) - 1)}

Chart(df0) ==
    LET df == FirstRows(df0, ChartRows)
    IN  [built |-> TRUE, nodes |-> AddNodes(<<>>, df, 1), edges |-> ChartEdges(df)]

BuildChart ==
    /\ pc = "done"
    /\ ~G.built
    /\ G' = Chart(data)
    /\ UNCHANGED <<csv, pc, data, i, j, nodes, edges, writes, run>>

----------------------------------------------------------------------------
(* Input files *)

Time(dd, mm, frac) == [dd |-> dd, mm |-> mm, frac |-> frac]

Row(t, o, c, v) ==
    [Gmt_time |-> t, Open |-> o, High |-> "1.50", Low |-> "1.09",
     Close |-> c, Volume |-> v]

Tables(rows, max) == UNION {[1..n -> rows] : n \in 1..max}

(* general tables: any order of the rows, times that may repeat *)
GeneralRows ==
    {Row(t, "1.1000", c, "0.001") :
        t \in {Time(1, 1, "000"), Time(2, 1, "000"), Time(1, 2, "000")},
        c \in {"1.10", "1.11"}}

GeneralTables == Tables(GeneralRows, MaxRows)

(* tables for cleaning: one instant written in two ways or not a time at
   all, volumes written in several ways, zero or not a number *)
CleanRows ==
    {Row(t, "1.1000", "1.10", v) :
        t \in {Time(1, 1, "000"), Time(1, 1, "0"), Time(1, 1, "x")},
        v \in {"0", "0.0", "0.001", "0.0010", "x"}}

CleanTables == Tables(CleanRows, MaxRows)

(* tables for the SIMILAR phase: one row a day, opens around the threshold *)
OpenTexts == {"1.1000", "1.1004", "1.1005", "x"}

SimTables ==
    UNION {{[k \in 1..n |-> Row(Time(k, 1, "000"), o[k], "1.10", "0.001")] :
                o \in [1..n -> OpenTexts]} : n \in 1..MaxSimRows}

(* tables for the statistics: one row a day; the close steps from 1.10 to
   c at row p and stays; row q, if any, carries a larger volume *)
StepTable(n, p, c, q) ==
    [k \in 1..n |->
        Row(Time(k, 1, "000"), "1.1000",
            IF k < p THEN "1.10" ELSE c,
            IF k = q THEN "0.002" ELSE "0.001")]

ExampleTable ==
    LET closes == <<"1.10", "1.11", "1.09", "1.10", "1.50">>
    IN  [k \in 1..5 |-> Row(Time(k, 1, "000"), "1.1000", closes[k], "0.001")]

StatTables ==
    {ExampleTable} \cup
    UNION {{StepTable(n, p, c, q) :
                p \in 2..n, c \in {"1.10", "1.11"}, q \in {0, 2, n}} :
            n \in 2..MaxStatRows}

----------------------------------------------------------------------------
(* Specifications *)

InitWith(inputs) ==
    /\ csv \in inputs
    /\ pc = "load"
    /\ data = <<>>
    /\ i = 1
    /\ j = 1
    /\ nodes = <<>>
    /\ edges = EmptyBag
    /\ writes = <<>>
    /\ run = 1
    /\ G = Unbuilt

Init == InitWith(GeneralTables)
InitClean == InitWith(CleanTables)
InitSimilar == InitWith(SimTables)
InitStats == InitWith(StatTables)

Next ==
    \/ Load
    \/ DetectOutliers
    \/ GuidelineDeviation
    \/ CreateTradeNode
    \/ StartNextPhase
    \/ CreateNext
    \/ StartSimilarPhase
    \/ SimilarStep
    \/ SimilarNextRow
    \/ Finish
    \/ Rerun
    \/ BuildChart

Spec == Init /\ [][Next]_vars
SpecClean == InitClean /\ [][Next]_vars
SpecSimilar == InitSimilar /\ [][Next]_vars
SpecStats == InitStats /\ [][Next]_vars

----------------------------------------------------------------------------
(* Properties *)

Cleaned   == pc = "detect"
Returned  == pc = "guideline"
Annotated == pc = "nodes" /\ i = 1

(* C1: the collection load_and_clean_data returns holds no observation with
   Volume 0 and no two observations equal in (Gmt time, Open, High, Low,
   Close, Volume), compared as they stand after the numeric coercion. *)
C1_CleanedDistinct ==
    Cleaned =>
        /\ \A k \in 1..Len(data) : ~(IsNum(data[k].Volume) /\ data[k].Volume.v = 0)
        /\ \A k, m \in 1..Len(data) : k # m => data[k] # data[m]

----------------------------------------------------------------------------
(* A directed multigraph (N, E), E a bag of <<src, dst>>, is a chain from
   `first`: |E| = |N| - 1, no node has two outgoing or two incoming edges,
   no edge is a self-loop, and every node is reached from `first`. *)
OutDegree(E, n) == BagCardinality([e \in {x \in BagToSet(E) : x[1] = n} |-> E[e]])
InDegree(E, n)  == BagCardinality([e \in {x \in BagToSet(E) : x[2] = n} |-> E[e]])

RECURSIVE ReachedFrom(_, _)
ReachedFrom(E, S) ==
    LET T == S \cup {e[2] : e \in {x \in BagToSet(E) : x[1] \in S}}
    IN  IF T = S THEN S ELSE ReachedFrom(E, T)

IsChain(N, E, first) ==
    /\ BagCardinality(E) = Cardinality(N) - 1
    /\ \A n \in N : OutDegree(E, n) <= 1 /\ InDegree(E, n) <= 1
    /\ \A e \in BagToSet(E) : e[1] # e[2]
    /\ ReachedFrom(E, {first}) = N

IsoKey(t) == (t[1] * 100 + t[2]) * 1000 + t[3]

EdgesOfType(type) ==
    LET S == {e \in BagToSet(edges) : e.type = type}
    IN  [p \in {<<e.src, e.dst>> : e \in S} |->
            BagCardinality([e \in {x \in S : x.src = p[1] /\ x.dst = p[2]} |-> edges[e]])]

StoreIsChain ==
    LET N == 1..Len(nodes)
        first == CHOOSE n \in N :
                    \A m \in N : IsoKey(nodes[n].timestamp) <= IsoKey(nodes[m].timestamp)
    IN  IsChain(N, EdgesOfType("NEXT"), first)

ChartIsChain ==
    LET N == Range(G.nodes)
        first == CHOOSE n \in N : \A m \in N : IsoKey(n) <= IsoKey(m)
    IN  IsChain(N, SetToBag(G.edges), first)

(* C2: for any non-empty set of Trade nodes a pipeline run produces, in the
   store and in Chart.G alike, the NEXT edges number the nodes minus one and
   form one simple path from the earliest node through every node. *)
C2_NextIsChain ==
    /\ (pc = "done" /\ nodes # <<>>) => StoreIsChain
    /\ (G.built /\ G.nodes # <<>>) => ChartIsChain

(* C3: after the script has run a second time on the same input against
   the store the first run left, the store holds no two Trade nodes with
   the same trade_id and no two NEXT or SIMILAR edges between the same
   ordered pair of nodes. *)
C3_RerunIdempotent ==
    (pc = "done" /\ run = 2) =>
        /\ \A a, b \in 1..Len(nodes) : a # b => nodes[a].trade_id # nodes[b].trade_id
        /\ \A type \in {"NEXT", "SIMILAR"} :
             \A p \in DOMAIN EdgesOfType(type) : EdgesOfType(type)[p] = 1

----------------------------------------------------------------------------
NodeWritesBefore(k) == {m \in 1..(k - 1) : writes[m].op = "NODE"}

(* C4: when a NEXT or SIMILAR write is issued, every node write of the run
   has completed: no node write follows an edge write, the node writes that
   precede it cover every row of data, and both trade_ids it names were
   written by them and are in the store. *)
C4_NodesBeforeEdges ==
    \A k \in 1..Len(writes) :
        writes[k].op # "NODE" =>
            /\ \A m \in 1..Len(writes) : writes[m].op = "NODE" => m < k
            /\ Cardinality(NodeWritesBefore(k)) = Len(data)
            /\ \A id \in {writes[k].a, writes[k].b} :
                 /\ \E m \in NodeWritesBefore(k) : writes[m].a = id
                 /\ \E n \in 1..Len(nodes) : nodes[n].trade_id = id

C4_Witness ==
    /\ pc = "done"
    /\ \E k \in 1..Len(writes) : writes[k].op = "NEXT"
    /\ \E k \in 1..Len(writes) : writes[k].op = "SIMILAR"

----------------------------------------------------------------------------
(* |open_a - open_b| of rows a, b of data, defined when both are numbers *)
OpensComparable(a, b) == IsNum(data[a].Open) /\ IsNum(data[b].Open)
OpenGap(a, b) ==
    LET x == data[a].Open.v - data[b].Open.v IN IF x < 0 THEN -x ELSE x
Qualifies(a, b) ==
    a < b /\ OpensComparable(a, b) /\ OpenGap(a, b) < SimilarThresholdPips

SimilarWrites == {k \in 1..Len(writes) : writes[k].op = "SIMILAR"}

(* C5: the finished run has issued one SIMILAR write from row a to row b for
   each pair a < b whose opens differ by less than the threshold and no
   other SIMILAR write; each carries 1/(|open_a - open_b| + epsilon), which
   is positive and finite. *)
C5_SimilarWrites ==
    pc = "done" =>
        /\ \A a, b \in 1..Len(data) :
             Cardinality({k \in SimilarWrites : writes[k].ia = a /\ writes[k].ib = b})
               = IF Qualifies(a, b) THEN 1 ELSE 0
        /\ \A k \in SimilarWrites :
             LET w == writes[k]
             IN  /\ w.ia \in 1..Len(data) /\ w.ib \in 1..Len(data)
                 /\ w.a = isoformat(data[w.ia].Gmt_time)
                 /\ w.b = isoformat(data[w.ib].Gmt_time)
                 /\ w.similarity.num = 1
                 /\ w.similarity.den = EpsilonDen * OpenGap(w.ia, w.ib) + 1
                 /\ w.similarity.den > 0

(* a finished run with a write for two equal opens and a pair exactly at
   the threshold, for which nothing was written *)
C5_Witness ==
    /\ pc = "done"
    /\ \E k \in SimilarWrites : OpenGap(writes[k].ia, writes[k].ib) = 0
    /\ \E a, b \in 1..Len(data) :
         /\ a < b /\ OpensComparable(a, b) /\ OpenGap(a, b) = SimilarThresholdPips
         /\ \A k \in SimilarWrites : ~(writes[k].ia = a /\ writes[k].ib = b)

----------------------------------------------------------------------------
cleaned == load_and_clean_data(csv)

DistinctTimes(df) ==
    \A a, b \in 1..Len(df) : a # b => df[a].Gmt_time # df[b].Gmt_time

(* the row of the cleaned collection with the next-smaller timestamp *)
IsChronoPrev(p, t) ==
    /\ cleaned[p].Gmt_time < t
    /\ \A m \in 1..Len(cleaned) :
         cleaned[m].Gmt_time < t => cleaned[m].Gmt_time <= cleaned[p].Gmt_time

(* C6: whatever the order of the rows in the file, the Return detect_outliers
   assigns to an observation is (close - close_prev) / close_prev for the
   observation prev with the next-smaller timestamp, and the one observation
   it excludes is the one with the earliest timestamp. *)
C6_ChronologicalReturn ==
    (Returned /\ DistinctTimes(cleaned) /\ cleaned # <<>>) =>
        /\ \A k \in 1..Len(data) :
             \E p \in 1..Len(cleaned) :
                /\ IsChronoPrev(p, data[k].Gmt_time)
                /\ data[k].Return =
                     FloatDiv(data[k].Close.v - cleaned[p].Close.v, cleaned[p].Close.v)
        /\ {cleaned[m].Gmt_time : m \in 1..Len(cleaned)}
             \ {data[k].Gmt_time : k \in 1..Len(data)}
           = {t \in {cleaned[m].Gmt_time : m \in 1..Len(cleaned)} :
                \A m \in 1..Len(cleaned) : t <= cleaned[m].Gmt_time}

----------------------------------------------------------------------------
RowOfDay(dd) == CHOOSE k \in 1..Len(data) : data[k].Gmt_time = to_datetime(Time(dd, 1, "000"))

(* C7 as stated: on the 5-row example detect_outliers flags row 5 and no
   other retained row. *)
C7_ExampleFlagsRow5 ==
    (Returned /\ csv = ExampleTable) =>
        \A k \in 1..Len(data) : data[k].is_outlier <=> k = RowOfDay(5)

(* C7 as amended: on the 5-row example detect_outliers retains rows 2 to 5
   and flags none of them; row 5 has the largest |z|, which is above 1 and
   below the threshold 3. *)
C7_ExampleFlagsNothing ==
    (Returned /\ csv = ExampleTable) =>
        /\ Len(data) = 4
        /\ \A k \in 1..Len(data) : ~data[k].is_outlier
        /\ LET z == data[RowOfDay(5)].z_score
           IN  /\ z.k = "num" /\ z.d > 0
               /\ z.d * z.d * z.n1 > z.ssd
               /\ z.d * z.d * z.n1 < OutlierThreshold * OutlierThreshold * z.ssd
               /\ \A k \in 1..Len(data) :
                    data[k].z_score.d * data[k].z_score.d <= z.d * z.d

C7_Witness ==
    /\ Returned /\ csv = ExampleTable
    /\ Len(data) = 4
    /\ data[RowOfDay(5)].Return.v > 3000

----------------------------------------------------------------------------
(* The bands of the claim, computed over the whole annotated collection by
   counting and by sums, not by the sorted list and the deviations. *)
Volumes == {k \in 1..Len(data) : IsNum(data[k].Volume)}

(* the r-th smallest volume, r = 1 .. number of volumes *)
OrderStat(r) ==
    LET k == CHOOSE x \in Volumes :
                /\ Cardinality({m \in Volumes : data[m].Volume.v < data[x].Volume.v}) < r
                /\ Cardinality({m \in Volumes : data[m].Volume.v <= data[x].Volume.v}) >= r
    IN  data[k].Volume.v

(* 100 times the pct-th percentile, linearly interpolated *)
Percentile100(pct) ==
    LET h == (Cardinality(Volumes) - 1) * pct
        below == OrderStat(h \div 100 + 1)
        above == IF h % 100 = 0 THEN below ELSE OrderStat(h \div 100 + 2)
    IN  100 * below + (h % 100) * (above - below)

SumR  == SumSeq([k \in 1..Len(data) |-> data[k].Return.v])
SumR2 == SumSeq([k \in 1..Len(data) |-> data[k].Return.v * data[k].Return.v])

(* n*(n-1)*n*var = n * (n*SumR2 - SumR^2);  Return - mean = (n*r - SumR)/n *)
BandDefined ==
    Len(data) >= 2 /\ \A k \in 1..Len(data) : IsNum(data[k].Return)

BelowReturnBand(k) ==
    LET n == Len(data)
        gap == SumR - n * data[k].Return.v
    IN  BandDefined /\ gap > 0
        /\ gap * gap * (n - 1) > SigmaBand * SigmaBand * n * (n * SumR2 - SumR * SumR)

AboveReturnBand(k) ==
    LET n == Len(data)
        gap == n * data[k].Return.v - SumR
    IN  BandDefined /\ gap > 0
        /\ gap * gap * (n - 1) > SigmaBand * SigmaBand * n * (n * SumR2 - SumR * SumR)

BelowVolumeBand(k) ==
    k \in Volumes /\ 100 * data[k].Volume.v < Percentile100(VolumeLowPct)
AboveVolumeBand(k) ==
    k \in Volumes /\ 100 * data[k].Volume.v > Percentile100(VolumeHighPct)

(* C8: deviates_guideline is true of an observation exactly when its Volume
   is below the 5th or above the 95th percentile of Volume over the whole
   collection, or its Return is below mean - 2*std or above mean + 2*std of
   Return over the whole collection; a value on a boundary does not deviate. *)
C8_GuidelineDeviation ==
    Annotated =>
        \A k \in 1..Len(data) :
            data[k].deviates_guideline <=>
                \/ BelowVolumeBand(k) \/ AboveVolumeBand(k)
                \/ BelowReturnBand(k) \/ AboveReturnBand(k)

(* an annotated collection with a row above the volume band, a row exactly
   on the lower volume boundary that does not deviate, and a row that
   deviates by its return alone *)
C8_Witness ==
    /\ Annotated
    /\ \E k \in 1..Len(data) : AboveVolumeBand(k) /\ data[k].deviates_guideline
    /\ \E k \in 1..Len(data) :
         /\ k \in Volumes
         /\ 100 * data[k].Volume.v = Percentile100(VolumeLowPct)
         /\ ~data[k].deviates_guideline
    /\ \E k \in 1..Len(data) :
         /\ AboveReturnBand(k) /\ ~AboveVolumeBand(k) /\ ~BelowVolumeBand(k)
         /\ data[k].deviates_guideline

----------------------------------------------------------------------------
(* zero variance, or fewer than two returns *)
Degenerate ==
    \/ Len(data) <= 1
    \/ \A a, b \in 1..Len(data) : data[a].Return = data[b].Return

(* C9: when the returns are all identical, or there is a single return,
   detect_outliers returns (no division fault ends the run), every z_score
   is NaN and is_outlier is false on every observation. *)
C9_DegenerateNotOutlier ==
    /\ pc # "aborted"
    /\ (Returned /\ Degenerate) =>
          \A k \in 1..Len(data) :
              data[k].z_score.k = "nan" /\ ~data[k].is_outlier

C9_Witness ==
    /\ Returned
    /\ Len(data) >= 2
    /\ \A a, b \in 1..Len(data) : data[a].Return = data[b].Return

----------------------------------------------------------------------------
(* C10: after detect_outliers and compute_guideline_deviation, an
   observation with is_outlier true has deviates_guideline true, in data
   and on every Trade node written. *)
C10_OutlierDeviates ==
    /\ Annotated =>
         \A k \in 1..Len(data) : data[k].is_outlier => data[k].deviates_guideline
    /\ \A n \in 1..Len(nodes) : nodes[n].is_outlier => nodes[n].deviates_guideline

C10_Witness ==
    \E n \in 1..Len(nodes) :
        /\ nodes[n].is_outlier /\ nodes[n].deviates_guideline
        /\ \A m \in 1..Len(nodes) : nodes[m].volume = nodes[n].volume

====
